---- MODULE Spec2Model ----
(***************************************************************************)
(* State machine of the campaign generator (src/App.tsx) and of the        *)
(* provider clients it calls (src/services/geminiService.ts).              *)
(*                                                                         *)
(* One action is one uninterrupted run of handler code: the synchronous    *)
(* part of a handler up to its first await, or the continuation that runs  *)
(* when an awaited promise settles.  A provider call is "waiting" until    *)
(* the provider answers; the answer is then held (pc "settled") until the  *)
(* handler's continuation consumes it.                                     *)
(***************************************************************************)
EXTENDS Integers, Sequences, FiniteSets, TLC

VARIABLES
    originalImage,      \* App.tsx:17  string | null
    analysis,           \* App.tsx:18  ProductAnalysis | null
    toastMessage,       \* App.tsx:19
    videoStatus,        \* App.tsx:20
    credits,            \* App.tsx:21
    showUpgradeModal,   \* App.tsx:22
    assets,             \* App.tsx:24  CreativeAssets
    loading,            \* App.tsx:31  LoadingState
    host,               \* window.aistudio: "none" (absent), "nokey", "key"
    an,                 \* per image: the upload / sample load / analysis in flight
    upg,                \* handleUpgrade: "idle" or "selecting" (awaiting openSelectKey)
    gen,                \* the three stateless generators: image, script, broll
    vid                 \* the invocations of onGenerateVideo

vars == <<originalImage, analysis, toastMessage, videoStatus, credits,
          showUpgradeModal, assets, loading, host, an, upg, gen, vid>>

appVars == <<originalImage, analysis, toastMessage, videoStatus, credits,
             showUpgradeModal, assets, loading>>

----------------------------------------------------------------------------
(* Bounds of the exploration *)

\* asynchronous operations in flight at the same time
MaxInFlight == 2
\* analyses started after an upgrade (credits then run down from 99)
MaxProSpend == 1
\* parts of one image-generation response
MaxParts == 2
\* status queries of one video job
MaxPolls == 2
\* concurrent invocations of onGenerateVideo
MaxVideoRuns == 2

(* Program constants *)
InitialCredits == 3
UpgradeCredits == 99

Null == "null"

Files == {"fileA", "fileB"}
SAMPLE_IMAGE == "sample"
Images == Files \cup {SAMPLE_IMAGE}

\* JSON.parse('{}'): an object with none of the ProductAnalysis fields
EmptyAnalysis == "{}"

\* the ProductAnalysis the provider derives from an image
AnalysisOf(img) ==
    CASE img = "fileA" -> "analysisA"
      [] img = "fileB" -> "analysisB"
      [] OTHER -> "analysisSample"

Slots == {"lifestyleImage", "tiktokScript", "bRollConcepts", "productVideoUrl"}
Flags == {"analyzing", "generatingImage", "writingScript", "ideatingBRoll",
          "generatingVideo"}

----------------------------------------------------------------------------
(* Errors: message is the list of the chunks of Error.message *)

NeedleNotFound == "Requested entity was not found"

NoError == [message |-> <<>>]
ErrNoImage == [message |-> <<"No image generated">>]
ErrNoUri == [message |-> <<"Video generation failed - no URI">>]
ErrSyntax == [message |-> <<"Unexpected token in JSON">>]
ErrNetwork == [message |-> <<"Failed to fetch">>]
ErrNotFound == [message |-> <<"404 ", NeedleNotFound, ".">>]
ErrNoMessage == [message |-> <<>>]

ProviderErrors == {ErrNetwork}
VideoErrors == {ErrNetwork, ErrNotFound, ErrNoMessage}

\* message === needle
IsExactly(message, needle) == message = <<needle>>

\* message.includes(needle)
Includes(message, needle) == \E i \in DOMAIN message : message[i] = needle

Ok(v) == [ok |-> TRUE, value |-> v, error |-> NoError]
\* the error swallowed: the call returns nothing instead of throwing
FailSilently(e) == [ok |-> TRUE, value |-> Null, error |-> e]
\* throw e
Fail(e) == [ok |-> FALSE, value |-> Null, error |-> e]
NoResult == [ok |-> TRUE, value |-> Null, error |-> NoError]

----------------------------------------------------------------------------
(* Provider answers.  A resolved call carries the parts of the response;   *)
(* a text part is named by what it holds ("json": text that parses to the  *)
(* value asked for, "garbage": text that does not parse, "prose": free     *)
(* text), an image part is "inlineData".  A rejected call carries an error.*)

Resolved(parts) == [ok |-> TRUE, parts |-> parts, error |-> NoError]
Rejected(e) == [ok |-> FALSE, parts |-> <<>>, error |-> e]
NoAnswer == Resolved(<<>>)

Rejections == {Rejected(e) : e \in ProviderErrors}

SeqsUpTo(S, n) == UNION {[1..k -> S] : k \in 0..n}

ImageAnswers == {Resolved(p) : p \in SeqsUpTo({"inlineData", "prose"}, MaxParts)}
                    \cup Rejections
ScriptAnswers == {Resolved(<<>>), Resolved(<<"prose">>)} \cup Rejections
BRollAnswers == {Resolved(<<>>), Resolved(<<"json">>), Resolved(<<"garbage">>)}
                    \cup Rejections
\* The analysis request names a response schema with every field required;
\* an answer without text is left out (the page cannot render the object
\* JSON.parse('{}') yields).
AnalysisAnswers == {Resolved(<<"json">>), Resolved(<<"garbage">>)} \cup Rejections

\* response.text: the text of the first text part, "" when there is none
RECURSIVE Text(_)
Text(parts) ==
    IF parts = <<>> THEN ""
    ELSE IF Head(parts) # "inlineData" THEN Head(parts)
    ELSE Text(Tail(parts))

\* text || d
OrDefault(text, d) == IF text = "" THEN d ELSE text

DefaultScript == "Failed to generate script."
EmptyList == "[]"
BRollList == "concepts"
DataUrl == "data:image/png;base64"
BlobUrl == "blob:video"

\* JSON.parse(text), payload being the value a well-formed answer encodes
JsonParse(text, payload) ==
    CASE text = "{}" -> Ok(EmptyAnalysis)
      [] text = "[]" -> Ok(EmptyList)
      [] text = "json" -> Ok(payload)
      [] OTHER -> Fail(ErrSyntax)

analyzeProductImage(img, answer) ==
    IF ~answer.ok THEN Fail(answer.error)
    ELSE JsonParse(OrDefault(Text(answer.parts), "{}"), AnalysisOf(img))

\* the loop of lines 71-75: the first part that carries inlineData
RECURSIVE FirstInline(_)
FirstInline(parts) ==
    IF parts = <<>> THEN Null
    ELSE IF Head(parts) = "inlineData" THEN DataUrl
    ELSE FirstInline(Tail(parts))

\* the function without the throw of line 76
generateLifestyleImageNoThrow(answer) ==
    IF ~answer.ok THEN Fail(answer.error)
    ELSE Ok(FirstInline(answer.parts))

generateLifestyleImage(answer) ==
    IF ~answer.ok THEN Fail(answer.error)
    ELSE IF FirstInline(answer.parts) # Null THEN Ok(FirstInline(answer.parts))
    ELSE Fail(ErrNoImage)

writeViralScript(answer) ==
    IF ~answer.ok THEN Fail(answer.error)
    ELSE Ok(OrDefault(Text(answer.parts), DefaultScript))

ideateBRoll(answer) ==
    IF ~answer.ok THEN Fail(answer.error)
    ELSE JsonParse(OrDefault(Text(answer.parts), "[]"), BRollList)

----------------------------------------------------------------------------
(* Processes *)

Generators == {"image", "script", "broll"}
VideoRuns == 1..MaxVideoRuns

IdleProc == [pc |-> "idle", answer |-> NoAnswer, result |-> NoResult]
IdleVideo == [pc |-> "idle", ready |-> FALSE, done |-> FALSE, uri |-> Null,
              msgIdx |-> 0, result |-> NoResult]

FlagOf(g) ==
    CASE g = "image" -> "generatingImage"
      [] g = "script" -> "writingScript"
      [] OTHER -> "ideatingBRoll"

SlotOf(g) ==
    CASE g = "image" -> "lifestyleImage"
      [] g = "script" -> "tiktokScript"
      [] OTHER -> "bRollConcepts"

InFlight ==
    Cardinality({i \in Images : an[i].pc # "idle"})
    + Cardinality({g \in Generators : gen[g].pc # "idle"})
    + Cardinality({v \in VideoRuns : vid[v].pc # "idle"})
    + (IF upg = "selecting" THEN 1 ELSE 0)

\* setLoading({ ...the initial flags, [flag]: v })
SetLoadingAlone(flag, v) == [f \in Flags |-> IF f = flag THEN v ELSE FALSE]

\* setLoading(prev => ({ ...prev, [flag]: v }))
SetLoading(flag, v) == [loading EXCEPT ![flag] = v]

\* setAssets({ ...the empty assets, [slot]: v })
SetAssetAlone(slot, v) == [s \in Slots |-> IF s = slot THEN v ELSE Null]

\* setAssets(prev => ({ ...prev, [slot]: v }))
SetAsset(slot, v) == [assets EXCEPT ![slot] = v]

EmptyAssets == [s \in Slots |-> Null]

\* the sample fetch made before the try block
InTryButSampleFetch(call) ==
    call \in {"analysis", "image", "video", "script", "broll"}

\* the provider calls a handler makes inside its try block
InTry(call) ==
    call \in {"sampleFetch", "analysis", "image", "video", "script", "broll"}

\* what a handler does with the failure of `call`: its catch block shows
\* `msg`; a failure outside any try block ends the handler and shows nothing
Caught(call, msg) == IF InTry(call) THEN msg ELSE toastMessage

Init ==
    /\ originalImage = Null
    /\ analysis = Null
    /\ toastMessage = Null
    /\ videoStatus = "Initializing..."
    /\ credits = InitialCredits
    /\ showUpgradeModal = FALSE
    /\ assets = EmptyAssets
    /\ loading = [f \in Flags |-> FALSE]
    /\ host \in {"none", "nokey", "key"}
    /\ an = [i \in Images |-> IdleProc]
    /\ upg = "idle"
    /\ gen = [g \in Generators |-> IdleProc]
    /\ vid = [v \in VideoRuns |-> IdleVideo]

----------------------------------------------------------------------------
(* Upload, sample load and analysis *)

\* the exploration follows the credits from 3 down to 0 and, after an
\* upgrade, from 99 down by MaxProSpend
CreditsExplored ==
    credits <= InitialCredits \/ credits > UpgradeCredits - MaxProSpend

\* the upload without its credit check
handleFileUploadUngated(file) ==
    /\ an[file].pc = "idle"
    /\ an' = [an EXCEPT ![file].pc = "reading"]
    /\ UNCHANGED <<originalImage, analysis, toastMessage, videoStatus, credits,
                   showUpgradeModal, assets, loading, host, upg, gen, vid>>

handleFileUpload(file) ==
    /\ IF credits <= 0
       THEN /\ showUpgradeModal' = TRUE
            /\ an' = an
       ELSE /\ an[file].pc = "idle"
            /\ an' = [an EXCEPT ![file].pc = "reading"]
            /\ showUpgradeModal' = showUpgradeModal
    /\ UNCHANGED <<originalImage, analysis, toastMessage, videoStatus, credits,
                   assets, loading, host, upg, gen, vid>>

handleSampleLoad ==
    /\ originalImage = Null
    /\ IF credits <= 0
       THEN /\ showUpgradeModal' = TRUE
            /\ UNCHANGED <<an, loading>>
       ELSE /\ an[SAMPLE_IMAGE].pc = "idle"
            /\ loading' = SetLoading("analyzing", TRUE)
            /\ an' = [an EXCEPT ![SAMPLE_IMAGE].pc = "fetching"]
            /\ showUpgradeModal' = showUpgradeModal
    /\ UNCHANGED <<originalImage, analysis, toastMessage, videoStatus, credits,
                   assets, host, upg, gen, vid>>

\* fetch(SAMPLE_IMAGE) and response.blob() settle
SampleFetchAnswer(answer) ==
    /\ an[SAMPLE_IMAGE].pc = "fetching"
    /\ an' = [an EXCEPT ![SAMPLE_IMAGE] =
                [pc |-> "fetched", answer |-> answer,
                 result |-> IF answer.ok THEN Ok(SAMPLE_IMAGE) ELSE Fail(answer.error)]]
    /\ UNCHANGED <<appVars, host, upg, gen, vid>>

SampleFetchContinue ==
    /\ an[SAMPLE_IMAGE].pc = "fetched"
    /\ IF an[SAMPLE_IMAGE].result.ok
       THEN /\ an' = [an EXCEPT ![SAMPLE_IMAGE] = [IdleProc EXCEPT !.pc = "reading"]]
            /\ toastMessage' = toastMessage
       ELSE /\ an' = [an EXCEPT ![SAMPLE_IMAGE] = IdleProc]
            /\ toastMessage' = Caught("sampleFetch", "Failed to load sample image.")
    /\ UNCHANGED <<originalImage, analysis, videoStatus, credits, showUpgradeModal,
                   assets, loading, host, upg, gen, vid>>

\* reader.onloadend, and handleAnalysis up to its await
ReaderLoadEnd(img) ==
    /\ an[img].pc = "reading"
    /\ originalImage' = img
    /\ loading' = SetLoading("analyzing", TRUE)
    /\ an' = [an EXCEPT ![img].pc = "waiting"]
    /\ UNCHANGED <<analysis, toastMessage, videoStatus, credits, showUpgradeModal,
                   assets, host, upg, gen, vid>>

AnalysisAnswer(img, answer) ==
    /\ an[img].pc = "waiting"
    /\ an' = [an EXCEPT ![img] =
                [pc |-> "settled", answer |-> answer,
                 result |-> analyzeProductImage(img, answer)]]
    /\ UNCHANGED <<appVars, host, upg, gen, vid>>

\* the decrement without its floor
SpendCreditNoFloor(prev) == prev - 1

\* setCredits(prev => Math.max(0, prev - 1))
SpendCredit(prev) == IF prev - 1 > 0 THEN prev - 1 ELSE 0

\* the handler sending the request again after a failure
handleAnalysisRetrying(img) ==
    /\ an[img].pc = "settled"
    /\ IF an[img].result.ok
       THEN /\ analysis' = an[img].result.value
            /\ credits' = SpendCredit(credits)
            /\ toastMessage' = "Analysis complete! 1 credit used."
            /\ loading' = SetLoading("analyzing", FALSE)
            /\ an' = [an EXCEPT ![img] = IdleProc]
       ELSE /\ toastMessage' = "Analysis failed. Try another image."
            /\ an' = [an EXCEPT ![img] = [IdleProc EXCEPT !.pc = "waiting"]]
            /\ UNCHANGED <<analysis, credits, loading>>
    /\ UNCHANGED <<originalImage, videoStatus, showUpgradeModal, assets, host,
                   upg, gen, vid>>

handleAnalysis(img) ==
    /\ an[img].pc = "settled"
    /\ IF an[img].result.ok
       THEN /\ analysis' = an[img].result.value
            /\ credits' = SpendCredit(credits)
            /\ toastMessage' = "Analysis complete! 1 credit used."
       ELSE /\ toastMessage' = Caught("analysis", "Analysis failed. Try another image.")
            /\ UNCHANGED <<analysis, credits>>
    /\ loading' = SetLoading("analyzing", FALSE)
    /\ an' = [an EXCEPT ![img] = IdleProc]
    /\ UNCHANGED <<originalImage, videoStatus, showUpgradeModal, assets, host,
                   upg, gen, vid>>

\* the reset without its setAssets call
NewCampaignKeepsAssets ==
    /\ originalImage # Null
    /\ originalImage' = Null
    /\ analysis' = Null
    /\ UNCHANGED <<assets, toastMessage, videoStatus, credits, showUpgradeModal,
                   loading, host, an, upg, gen, vid>>

NewCampaign ==
    /\ originalImage # Null
    /\ originalImage' = Null
    /\ analysis' = Null
    /\ assets' = EmptyAssets
    /\ UNCHANGED <<toastMessage, videoStatus, credits, showUpgradeModal, loading,
                   host, an, upg, gen, vid>>

----------------------------------------------------------------------------
(* The upgrade modal *)

\* upg is the position of handleUpgrade: "idle" before its first run,
\* "selecting" at its await, "upgraded" once a run has completed
handleUpgrade ==
    /\ showUpgradeModal
    /\ host # "none"
    /\ upg # "selecting"
    /\ upg' = "selecting"
    /\ UNCHANGED <<appVars, host, an, gen, vid>>

\* the continuation without its setCredits call
OpenSelectKeyContinueNoCredits(selected) ==
    /\ upg = "selecting"
    /\ host' = selected
    /\ showUpgradeModal' = FALSE
    /\ toastMessage' = "Pro features unlocked!"
    /\ upg' = "upgraded"
    /\ UNCHANGED <<originalImage, analysis, videoStatus, credits, assets, loading,
                   an, gen, vid>>

\* window.aistudio.openSelectKey() resolves: the user has linked a key or not
OpenSelectKeyContinue(selected) ==
    /\ upg = "selecting"
    /\ host' = selected
    /\ showUpgradeModal' = FALSE
    /\ toastMessage' = "Pro features unlocked!"
    /\ credits' = UpgradeCredits
    /\ upg' = "upgraded"
    /\ UNCHANGED <<originalImage, analysis, videoStatus, assets, loading, an, gen, vid>>

CloseModal ==
    /\ showUpgradeModal
    /\ showUpgradeModal' = FALSE
    /\ UNCHANGED <<originalImage, analysis, toastMessage, videoStatus, credits,
                   assets, loading, host, an, upg, gen, vid>>

UnlockPro ==
    /\ ~loading.generatingVideo
    /\ assets.productVideoUrl = Null
    /\ showUpgradeModal' = TRUE
    /\ UNCHANGED <<originalImage, analysis, toastMessage, videoStatus, credits,
                   assets, loading, host, an, upg, gen, vid>>

CloseToast ==
    /\ toastMessage # Null
    /\ toastMessage' = Null
    /\ UNCHANGED <<originalImage, analysis, videoStatus, credits, showUpgradeModal,
                   assets, loading, host, an, upg, gen, vid>>

----------------------------------------------------------------------------
(* The three generators: onGenerateImage, onWriteScript, onIdeateBRoll *)

\* the action buttons are rendered with the original image and are disabled
\* without analysis and while their loading flag is set
ButtonEnabled(flag) ==
    /\ originalImage # Null
    /\ analysis # Null
    /\ ~loading[flag]

\* the early return at the head of each handler
Precondition(g) ==
    IF g = "image" THEN originalImage # Null /\ analysis # Null
    ELSE analysis # Null

Answers(g) ==
    CASE g = "image" -> ImageAnswers
      [] g = "script" -> ScriptAnswers
      [] OTHER -> BRollAnswers

Service(g, answer) ==
    CASE g = "image" -> generateLifestyleImage(answer)
      [] g = "script" -> writeViralScript(answer)
      [] OTHER -> ideateBRoll(answer)

SuccessToast(g) ==
    CASE g = "image" -> "Lifestyle photo generated!"
      [] g = "script" -> "Viral script ready!"
      [] OTHER -> "B-roll concepts created!"

FailureToast(g) ==
    CASE g = "image" -> "Failed to generate image."
      [] g = "script" -> "Failed to write script."
      [] OTHER -> "Failed to ideate B-roll."

\* the click, and the handler up to its await: the request is sent
onGenerate(g) ==
    /\ ButtonEnabled(FlagOf(g))
    /\ IF ~Precondition(g)
       THEN UNCHANGED <<loading, gen>>
       ELSE /\ loading' = SetLoading(FlagOf(g), TRUE)
            /\ gen' = [gen EXCEPT ![g].pc = "waiting"]
    /\ UNCHANGED <<originalImage, analysis, toastMessage, videoStatus, credits,
                   showUpgradeModal, assets, host, an, upg, vid>>

\* the provider answers and the service function returns or throws
GeneratorAnswer(g, answer) ==
    /\ gen[g].pc = "waiting"
    /\ gen' = [gen EXCEPT ![g] =
                [pc |-> "settled", answer |-> answer, result |-> Service(g, answer)]]
    /\ UNCHANGED <<appVars, host, an, upg, vid>>

\* the handler after its await: try / catch / finally
onGenerateContinue(g) ==
    /\ gen[g].pc = "settled"
    /\ IF gen[g].result.ok
       THEN /\ assets' = SetAsset(SlotOf(g), gen[g].result.value)
            /\ toastMessage' = SuccessToast(g)
       ELSE /\ assets' = assets
            /\ toastMessage' = Caught(g, FailureToast(g))
    /\ loading' = SetLoading(FlagOf(g), FALSE)
    /\ gen' = [gen EXCEPT ![g] = IdleProc]
    /\ UNCHANGED <<originalImage, analysis, videoStatus, credits, showUpgradeModal,
                   host, an, upg, vid>>

copyToClipboard ==
    /\ ~loading.ideatingBRoll
    /\ assets.bRollConcepts = BRollList
    /\ toastMessage' = "Copied to clipboard!"
    /\ UNCHANGED <<originalImage, analysis, videoStatus, credits, showUpgradeModal,
                   assets, loading, host, an, upg, gen, vid>>

----------------------------------------------------------------------------
(* The video: onGenerateVideo and generateProductVideo *)

loadingMessages ==
    << "Analyzing product geometry...",
       "Simulating cinematic lighting...",
       "Extrapolating lifestyle environment...",
       "Rendering high-fidelity frames...",
       "Applying professional color grade...",
       "Finalizing export bitrate..." >>

\* the status staying on the last message instead of rotating
StatusMessageClamped(msgIdx) ==
    loadingMessages[(IF msgIdx < Len(loadingMessages)
                     THEN msgIdx ELSE Len(loadingMessages) - 1) + 1]

\* loadingMessages[msgIdx % loadingMessages.length]
StatusMessage(msgIdx) == loadingMessages[(msgIdx % Len(loadingMessages)) + 1]

\* msgIdx is read only modulo the number of messages: the model keeps it
\* exact below two rounds and folds it back by one round above
Fold(i) == IF i >= 2 * Len(loadingMessages) THEN i - Len(loadingMessages) ELSE i

\* an operation the provider reports
Operation(done, uri) == [ok |-> TRUE, done |-> done, uri |-> uri, error |-> NoError]
OperationRejected(e) == [ok |-> FALSE, done |-> FALSE, uri |-> Null, error |-> e]

PendingOperation == Operation(FALSE, Null)
DoneOperations == {Operation(TRUE, "uri"), Operation(TRUE, Null)}
OperationAnswers ==
    {PendingOperation} \cup DoneOperations
        \cup {OperationRejected(e) : e \in VideoErrors}

FetchAnswers == {Resolved(<<"blob">>)} \cup {Rejected(e) : e \in VideoErrors}

\* the check taken as passed whatever the host answers
HasKeyAlways(h) == TRUE

\* window.aistudio && (await window.aistudio.hasSelectedApiKey())
HasKey(h) == h = "key"

\* while (true)
LoopForever(done) == TRUE

\* while (!operation.done)
LoopAgain(done) == ~done

onGenerateVideo(v) ==
    /\ ButtonEnabled("generatingVideo")
    /\ vid[v].pc = "idle"
    /\ IF host = "none"
       THEN /\ showUpgradeModal' = TRUE
            /\ vid' = vid
       ELSE /\ vid' = [vid EXCEPT ![v] =
                        [IdleVideo EXCEPT !.pc = "auth",
                            !.ready = (originalImage # Null /\ analysis # Null)]]
            /\ showUpgradeModal' = showUpgradeModal
    /\ UNCHANGED <<originalImage, analysis, toastMessage, videoStatus, credits,
                   assets, loading, host, an, upg, gen>>

\* hasSelectedApiKey() has resolved; the handler runs on, with the image and
\* the analysis of the render that was clicked (vid[v].ready), until
\* generateProductVideo awaits the submission
onGenerateVideoAuthorized(v) ==
    /\ vid[v].pc = "auth"
    /\ IF ~HasKey(host)
       THEN /\ showUpgradeModal' = TRUE
            /\ vid' = [vid EXCEPT ![v] = IdleVideo]
            /\ UNCHANGED <<loading, videoStatus>>
       ELSE IF ~vid[v].ready
       THEN /\ vid' = [vid EXCEPT ![v] = IdleVideo]
            /\ UNCHANGED <<loading, videoStatus, showUpgradeModal>>
       ELSE /\ loading' = SetLoading("generatingVideo", TRUE)
            /\ videoStatus' = "Initializing Video Engine..."
            /\ vid' = [vid EXCEPT ![v].pc = "submit"]
            /\ showUpgradeModal' = showUpgradeModal
    /\ UNCHANGED <<originalImage, analysis, toastMessage, credits, assets, host,
                   an, upg, gen>>

\* the function without the check of line 122: the download is made whatever
\* locator the finished job carries
VideoAdvanceUnchecked(v, op) ==
    IF ~op.ok
    THEN /\ vid' = [vid EXCEPT ![v].pc = "settled", ![v].result = Fail(op.error)]
         /\ videoStatus' = videoStatus
    ELSE IF LoopAgain(op.done)
    THEN /\ videoStatus' = StatusMessage(vid[v].msgIdx)
         /\ vid' = [vid EXCEPT ![v].pc = "sleep", ![v].done = op.done,
                       ![v].uri = op.uri, ![v].msgIdx = Fold(vid[v].msgIdx + 1)]
    ELSE /\ vid' = [vid EXCEPT ![v].pc = "fetch", ![v].done = op.done,
                       ![v].uri = op.uri]
         /\ videoStatus' = videoStatus

\* generateProductVideo from the point where `operation` is assigned: the
\* loop test, one more cycle up to the suspension, or the part after the loop
\* up to the download
VideoAdvance(v, op) ==
    IF ~op.ok
    THEN /\ vid' = [vid EXCEPT ![v].pc = "settled", ![v].result = Fail(op.error)]
         /\ videoStatus' = videoStatus
    ELSE IF LoopAgain(op.done)
    THEN /\ videoStatus' = StatusMessage(vid[v].msgIdx)
         /\ vid' = [vid EXCEPT ![v].pc = "sleep", ![v].done = op.done,
                       ![v].uri = op.uri, ![v].msgIdx = Fold(vid[v].msgIdx + 1)]
    ELSE IF op.uri = Null
    THEN /\ vid' = [vid EXCEPT ![v].pc = "settled", ![v].done = op.done,
                       ![v].uri = op.uri, ![v].result = Fail(ErrNoUri)]
         /\ videoStatus' = videoStatus
    ELSE /\ vid' = [vid EXCEPT ![v].pc = "fetch", ![v].done = op.done,
                       ![v].uri = op.uri]
         /\ videoStatus' = videoStatus

\* ai.models.generateVideos settles
SubmitAnswer(v, op) ==
    /\ vid[v].pc = "submit"
    /\ VideoAdvance(v, op)
    /\ UNCHANGED <<originalImage, analysis, toastMessage, credits, showUpgradeModal,
                   assets, loading, host, an, upg, gen>>

\* the timer of line 117 fires and the status query is sent
SleepEnd(v) ==
    /\ vid[v].pc = "sleep"
    /\ vid' = [vid EXCEPT ![v].pc = "query"]
    /\ UNCHANGED <<appVars, host, an, upg, gen>>

\* ai.operations.getVideosOperation settles
QueryAnswer(v, op) ==
    /\ vid[v].pc = "query"
    /\ VideoAdvance(v, op)
    /\ UNCHANGED <<originalImage, analysis, toastMessage, credits, showUpgradeModal,
                   assets, loading, host, an, upg, gen>>

\* the download (fetch and blob) settles and generateProductVideo returns
FetchAnswer(v, answer) ==
    /\ vid[v].pc = "fetch"
    /\ vid' = [vid EXCEPT ![v].pc = "settled",
                  ![v].result = IF answer.ok THEN Ok(BlobUrl) ELSE Fail(answer.error)]
    /\ UNCHANGED <<appVars, host, an, upg, gen>>

\* onGenerateVideo after generateProductVideo: try / catch / finally
onGenerateVideoContinue(v) ==
    /\ vid[v].pc = "settled"
    /\ IF vid[v].result.ok
       THEN /\ assets' = SetAsset("productVideoUrl", vid[v].result.value)
            /\ toastMessage' = "Campaign video generated!"
            /\ showUpgradeModal' = showUpgradeModal
       ELSE IF Includes(vid[v].result.error.message, NeedleNotFound)
       THEN /\ toastMessage' = Caught("video", "Session expired. Please re-link your key.")
            /\ showUpgradeModal' = (InTry("video") \/ showUpgradeModal)
            /\ assets' = assets
       ELSE /\ toastMessage' = Caught("video", "Video generation failed.")
            /\ UNCHANGED <<assets, showUpgradeModal>>
    /\ loading' = SetLoading("generatingVideo", FALSE)
    /\ vid' = [vid EXCEPT ![v] = IdleVideo]
    /\ UNCHANGED <<originalImage, analysis, videoStatus, credits, host, an, upg, gen>>

----------------------------------------------------------------------------
(* The application.  The actions above are the handlers; the bounds of the *)
(* exploration are laid on the actions that start an operation here.       *)

\* at most n asynchronous operations are in flight after the step
Within(n) == InFlight' <= n

UploadActions(files) ==
    \/ \E f \in files : CreditsExplored /\ handleFileUpload(f) /\ Within(MaxInFlight)
    \/ CreditsExplored /\ handleSampleLoad /\ Within(MaxInFlight)
    \/ \E a \in Rejections \cup {Resolved(<<"blob">>)} : SampleFetchAnswer(a)
    \/ SampleFetchContinue
    \/ \E i \in Images : ReaderLoadEnd(i)
    \/ \E i \in Images, a \in AnalysisAnswers : AnalysisAnswer(i, a)
    \/ \E i \in Images : handleAnalysis(i)

ModalActions ==
    \/ handleUpgrade /\ Within(MaxInFlight)
    \/ \E s \in {"nokey", "key"} : OpenSelectKeyContinue(s)
    \/ CloseModal
    \/ UnlockPro

GeneratorActions ==
    \/ \E g \in Generators : onGenerate(g) /\ Within(MaxInFlight)
    \/ \E g \in Generators : \E a \in Answers(g) : GeneratorAnswer(g, a)
    \/ \E g \in Generators : onGenerateContinue(g)

\* the video actions of the runs `runs`; with `bounded`, a job is reported
\* pending at most MaxPolls times
VideoActions(runs, bounded) ==
    \/ \E v \in runs : onGenerateVideo(v) /\ Within(MaxInFlight)
    \/ \E v \in runs : onGenerateVideoAuthorized(v)
    \/ \E v \in runs, op \in OperationAnswers : SubmitAnswer(v, op)
    \/ \E v \in runs : SleepEnd(v)
    \/ \E v \in runs, op \in OperationAnswers :
            /\ (op = PendingOperation /\ bounded) => vid[v].msgIdx < MaxPolls
            /\ QueryAnswer(v, op)
    \/ \E v \in runs, a \in FetchAnswers : FetchAnswer(v, a)
    \/ \E v \in runs : onGenerateVideoContinue(v)

Next ==
    \/ UploadActions(Files)
    \/ ModalActions
    \/ NewCampaign
    \/ CloseToast
    \/ copyToClipboard
    \/ GeneratorActions
    \/ VideoActions(VideoRuns, TRUE)

Spec == Init /\ [][Next]_vars

----------------------------------------------------------------------------
(* Slices of the application: a reachable initial state and the actions of *)
(* one concern.  Every behaviour of a slice is a behaviour of Spec.        *)

\* upload, sample load, analysis, credits and the upgrade
UploadNext ==
    \/ UploadActions(Files)
    \/ ModalActions
    \/ NewCampaign

UploadSpec == Init /\ [][UploadNext]_vars

\* the state after "fileA" has been uploaded and analysed
Analysed ==
    /\ originalImage = "fileA"
    /\ analysis = AnalysisOf("fileA")
    /\ toastMessage = "Analysis complete! 1 credit used."
    /\ videoStatus = "Initializing..."
    /\ credits = InitialCredits - 1
    /\ showUpgradeModal = FALSE
    /\ assets = EmptyAssets
    /\ loading = [f \in Flags |-> FALSE]
    /\ host \in {"none", "nokey", "key"}
    /\ an = [i \in Images |-> IdleProc]
    /\ upg = "idle"
    /\ gen = [g \in Generators |-> IdleProc]
    /\ vid = [v \in VideoRuns |-> IdleVideo]

\* the generators and the video of one campaign
AssetNext ==
    \/ GeneratorActions
    \/ VideoActions({1}, TRUE)
    \/ NewCampaign

AssetSpec == Analysed /\ [][AssetNext]_vars

\* one invocation of the video at a time, a job being reported pending any
\* number of times
VideoNext ==
    \/ VideoActions({1}, FALSE)
    \/ NewCampaign

\* timers fire, the provider answers every call, and it does not report a
\* job it is asked about again and again as pending for ever
VideoFairness ==
    \A v \in VideoRuns :
        /\ WF_vars(onGenerateVideoAuthorized(v))
        /\ WF_vars(\E op \in OperationAnswers : SubmitAnswer(v, op))
        /\ WF_vars(SleepEnd(v))
        /\ WF_vars(\E op \in OperationAnswers : QueryAnswer(v, op))
        /\ SF_vars(\E op \in DoneOperations : QueryAnswer(v, op))
        /\ WF_vars(\E a \in FetchAnswers : FetchAnswer(v, a))

LiveSpec == Analysed /\ [][VideoNext]_vars /\ VideoFairness

\* the same, without the assumptions on the provider
PollSpec == Analysed /\ [][VideoNext]_vars

\* the video clicked again while an earlier invocation is under way
RacingNext ==
    \/ VideoActions(VideoRuns, TRUE)
    \/ NewCampaign

RacingSpec == Analysed /\ [][RacingNext]_vars

\* the answers of a failing provider
FailingAnswers(g) == {a \in Answers(g) : ~Service(g, a).ok}
FailingOperations == OperationAnswers \ {Operation(TRUE, "uri")}

\* every handler, with a provider that analyses
\* images and fails every other call
FailingNext ==
    \/ CreditsExplored /\ handleFileUpload("fileA") /\ Within(MaxInFlight)
    \/ CreditsExplored /\ handleSampleLoad /\ Within(MaxInFlight)
    \/ \E a \in Rejections : SampleFetchAnswer(a)
    \/ SampleFetchContinue
    \/ \E i \in Images : ReaderLoadEnd(i)
    \/ \E i \in Images, a \in AnalysisAnswers : AnalysisAnswer(i, a)
    \/ \E i \in Images : handleAnalysis(i)
    \/ NewCampaign
    \/ \E g \in Generators : onGenerate(g) /\ Within(MaxInFlight)
    \/ \E g \in Generators : \E a \in FailingAnswers(g) : GeneratorAnswer(g, a)
    \/ \E g \in Generators : onGenerateContinue(g)
    \/ onGenerateVideo(1) /\ Within(MaxInFlight)
    \/ onGenerateVideoAuthorized(1)
    \/ \E op \in FailingOperations : SubmitAnswer(1, op)
    \/ SleepEnd(1)
    \/ \E op \in FailingOperations :
            /\ op = PendingOperation => vid[1].msgIdx < MaxPolls
            /\ QueryAnswer(1, op)
    \/ onGenerateVideoContinue(1)

FailingSpec == Init /\ [][FailingNext]_vars

\* uploads of one file and the upgrade, the credits followed all the way down
UpgradeNext ==
    \/ handleFileUpload("fileA") /\ Within(MaxInFlight)
    \/ ReaderLoadEnd("fileA")
    \/ \E a \in AnalysisAnswers : AnalysisAnswer("fileA", a)
    \/ handleAnalysis("fileA")
    \/ ModalActions

UpgradeSpec == Init /\ [][UpgradeNext]_vars

----------------------------------------------------------------------------
(* Claims *)

\* the step in which handleAnalysis takes the successful result for image i
AnalysisSucceeds(i) ==
    /\ an[i].pc = "settled"
    /\ an[i].result.ok
    /\ an'[i].pc = "idle"

GeneratorSettles(g) == gen[g].pc = "settled" /\ gen'[g].pc = "idle"
VideoSettles(v) == vid[v].pc = "settled" /\ vid'[v].pc = "idle"

OtherSlotsKept(slot) == \A s \in Slots \ {slot} : assets'[s] = assets[s]

\* C2: the successful settlement of a generator action sets its own slot to
\* the result and leaves every other slot as it was.
C2_SuccessSetsOwnSlotOnly ==
    [][ /\ \A g \in Generators :
              (GeneratorSettles(g) /\ gen[g].result.ok) =>
                  /\ assets'[SlotOf(g)] = gen[g].result.value
                  /\ OtherSlotsKept(SlotOf(g))
        /\ \A v \in VideoRuns :
              (VideoSettles(v) /\ vid[v].result.ok) =>
                  /\ assets'.productVideoUrl = vid[v].result.value
                  /\ OtherSlotsKept("productVideoUrl")
      ]_vars

\* the video and the script were populated first, the image comes last
C2_Witness ==
    /\ assets.productVideoUrl # Null
    /\ assets.tiktokScript # Null
    /\ assets.bRollConcepts = Null
    /\ assets.lifestyleImage = Null
    /\ gen["image"].pc = "settled"
    /\ gen["image"].result.ok

\* C4: a video trigger whose authorization check reports no selected key
\* (no window.aistudio, or hasSelectedApiKey false) opens the upgrade modal
\* and submits nothing; generatingVideo and the assets stay as they were.
C4_DeniedVideoOpensModal ==
    [][ \A v \in VideoRuns :
          /\ (vid[v].pc = "auth" /\ host # "key" /\ vid'[v] # vid[v]) =>
                /\ showUpgradeModal'
                /\ vid'[v].pc = "idle"
                /\ loading'.generatingVideo = loading.generatingVideo
                /\ assets' = assets
          /\ host = "none" =>
                /\ vid'[v].pc = "idle"
                /\ loading'.generatingVideo = loading.generatingVideo
                /\ (showUpgradeModal' # showUpgradeModal =>
                        showUpgradeModal' /\ assets' = assets)
      ]_vars

\* the check has reported no key: the modal is open and no video is in flight
C4_Witness ==
    /\ host = "nokey"
    /\ showUpgradeModal
    /\ \A v \in VideoRuns : vid[v].pc = "idle"
    /\ ~loading.generatingVideo

NoInlineData(parts) == \A k \in DOMAIN parts : parts[k] # "inlineData"

\* C5: an image response without image data makes generateLifestyleImage
\* fail with "No image generated"; onGenerateImage then leaves lifestyleImage
\* as it was, shows its failure toast and clears generatingImage.
C5_NoImageDataFails ==
    [][ (/\ gen["image"].pc = "settled"
         /\ gen["image"].answer.ok
         /\ NoInlineData(gen["image"].answer.parts)) =>
            /\ gen["image"].result.ok = FALSE
            /\ gen["image"].result.error.message = <<"No image generated">>
            /\ GeneratorSettles("image") =>
                  /\ assets'.lifestyleImage = assets.lifestyleImage
                  /\ toastMessage' = "Failed to generate image."
                  /\ ~loading'.generatingImage
      ]_vars

\* an image was generated before; the answer to a new request holds text only
C5_Witness ==
    /\ assets.lifestyleImage # Null
    /\ gen["image"].pc = "settled"
    /\ gen["image"].answer.ok
    /\ gen["image"].answer.parts # <<>>
    /\ NoInlineData(gen["image"].answer.parts)

\* C6: the failure of a generator action (the call rejected, or its result
\* an error) leaves the four asset slots as they were.
C6_FailureKeepsAssets ==
    [][ /\ \A g \in Generators :
              (GeneratorSettles(g) /\ (~gen[g].answer.ok \/ ~gen[g].result.ok)) =>
                  assets' = assets
        /\ \A v \in VideoRuns :
              (VideoSettles(v) /\ ~vid[v].result.ok) => assets' = assets
      ]_vars

\* the video has failed while an image and a script are there
C6_Witness ==
    /\ assets.lifestyleImage # Null
    /\ assets.tiktokScript # Null
    /\ \E v \in VideoRuns : vid[v].pc = "settled" /\ ~vid[v].result.ok

NamesMissingEntity(message) ==
    \E k \in DOMAIN message : message[k] = "Requested entity was not found"

\* C8: a video failure whose message contains "Requested entity was not
\* found" shows the session-expired toast and opens the upgrade modal; any
\* other video failure shows "Video generation failed." and leaves the modal;
\* both clear generatingVideo and leave productVideoUrl.
C8_VideoFailureToasts ==
    [][ \A v \in VideoRuns :
          (VideoSettles(v) /\ ~vid[v].result.ok) =>
              /\ IF NamesMissingEntity(vid[v].result.error.message)
                 THEN /\ toastMessage' = "Session expired. Please re-link your key."
                      /\ showUpgradeModal'
                 ELSE /\ toastMessage' = "Video generation failed."
                      /\ showUpgradeModal' = showUpgradeModal
              /\ ~loading'.generatingVideo
              /\ assets'.productVideoUrl = assets.productVideoUrl
      ]_vars

\* a second video failed with the entity missing, the first one is kept
C8_Witness ==
    /\ toastMessage = "Session expired. Please re-link your key."
    /\ showUpgradeModal
    /\ assets.productVideoUrl # Null
    /\ ~loading.generatingVideo

\* the step of the New Campaign button
NewCampaignPressed == originalImage # Null /\ originalImage' = Null

\* C9 as stated: New Campaign resets the image, the analysis, every asset
\* slot, every loading flag and the credits counter.
C9_NewCampaignResetsEverything ==
    [][ NewCampaignPressed =>
          /\ analysis' = Null
          /\ \A s \in Slots : assets'[s] = Null
          /\ \A f \in Flags : ~loading'[f]
          /\ credits' = InitialCredits
      ]_vars

\* C9 amended: New Campaign resets the image, the analysis and every asset
\* slot to null; the loading flags and the credits keep their values.
C9_NewCampaignResetsCampaign ==
    [][ NewCampaignPressed =>
          /\ analysis' = Null
          /\ \A s \in Slots : assets'[s] = Null
          /\ loading' = loading
          /\ credits' = credits
      ]_vars

\* New Campaign was pressed after a script was written, with an image
\* request in flight and one credit spent
C9_Witness ==
    /\ originalImage = Null
    /\ analysis = Null
    /\ toastMessage = "Viral script ready!"
    /\ loading.generatingImage
    /\ credits < InitialCredits

\* C10: no script or B-roll request is sent while analysis is null, and no
\* image or video request while analysis or the original image is null.
C10_RequestsNeedAnalysis ==
    [][ /\ \A g \in Generators :
              (gen[g].pc = "idle" /\ gen'[g].pc = "waiting") =>
                  /\ analysis # Null
                  /\ g = "image" => originalImage # Null
        /\ \A v \in VideoRuns :
              (vid[v].pc = "auth" /\ vid'[v].pc = "submit") =>
                  /\ analysis # Null
                  /\ originalImage # Null
      ]_vars

\* C3: a video job that the provider comes to report as done does not stay
\* in the polling loop: generateProductVideo settles, with a video reference
\* or with an error.
C3_PollingEnds ==
    \A v \in VideoRuns :
        (vid[v].pc \in {"sleep", "query"}) ~> (vid[v].pc = "settled")

\* the loop has gone round more than once
C3_Witness ==
    \E v \in VideoRuns : vid[v].pc = "query" /\ vid[v].msgIdx >= 2

\* the steps in which a handler takes the failure of its call
SampleFetchFails ==
    /\ an[SAMPLE_IMAGE].pc = "fetched"
    /\ ~an[SAMPLE_IMAGE].result.ok
    /\ an'[SAMPLE_IMAGE] # an[SAMPLE_IMAGE]
AnalysisFails(i) == an[i].pc = "settled" /\ ~an[i].result.ok /\ an'[i] # an[i]
GeneratorFails(g) == GeneratorSettles(g) /\ ~gen[g].result.ok
VideoFails(v) == VideoSettles(v) /\ ~vid[v].result.ok

\* C7: the failure of a call made by a user action (sample fetch, analysis,
\* image, video, script, B-roll) is caught by its handler and shown as that
\* handler's toast; the handler then is over, its button no longer busy.
C7_FailuresBecomeToasts ==
    [][ /\ SampleFetchFails =>
              /\ toastMessage' = "Failed to load sample image."
              /\ an'[SAMPLE_IMAGE].pc = "idle"
        /\ \A i \in Images :
              AnalysisFails(i) =>
                  /\ toastMessage' = "Analysis failed. Try another image."
                  /\ an'[i].pc = "idle"
                  /\ ~loading'.analyzing
        /\ GeneratorFails("image") => toastMessage' = "Failed to generate image."
        /\ GeneratorFails("script") => toastMessage' = "Failed to write script."
        /\ GeneratorFails("broll") => toastMessage' = "Failed to ideate B-roll."
        /\ \A g \in Generators : GeneratorFails(g) => ~loading'[FlagOf(g)]
        /\ \A v \in VideoRuns :
              VideoFails(v) =>
                  /\ toastMessage' \in {"Session expired. Please re-link your key.",
                                        "Video generation failed."}
                  /\ ~loading'.generatingVideo
      ]_vars

\* the sample fetch has failed and its toast is up; the upload made after it
\* is being read
C7_Witness ==
    /\ toastMessage = "Failed to load sample image."
    /\ an[SAMPLE_IMAGE].pc = "idle"
    /\ an["fileA"].pc = "reading"

\* a file upload or a sample load is triggered
UploadTriggered == handleSampleLoad \/ \E f \in Files : handleFileUpload(f)

\* C11: with the credits at 0, a file upload or a sample load opens the
\* upgrade modal and does nothing else: no image is stored, no read, fetch or
\* analysis is started, and analysis, credits and the loading flags are
\* unchanged; no step taken with the credits at 0 starts an upload.
C11_NoCreditsOpensModalOnly ==
    [][ credits = 0 =>
          /\ UploadTriggered =>
                /\ showUpgradeModal'
                /\ UNCHANGED <<originalImage, analysis, toastMessage, videoStatus,
                               credits, assets, loading, host, an, upg, gen, vid>>
          /\ \A i \in Images : an[i].pc = "idle" => an'[i].pc = "idle"
      ]_vars

\* the last credit is spent, nothing is in flight, and the modal is open
C11_Witness ==
    /\ credits = 0
    /\ showUpgradeModal
    /\ originalImage # Null
    /\ analysis # Null
    /\ ~loading.analyzing
    /\ \A i \in Images : an[i].pc = "idle"
    /\ upg # "selecting"

\* C12: a failed analysis (rejected call or unparsable answer) leaves the
\* stored analysis and the credits as they were, shows the one failure toast,
\* clears the analyzing flag and ends its handler; an analysis request is sent
\* only by the reader of an upload or sample load the user has triggered,
\* never by a handler that has failed.
C12_FailedAnalysisHalts ==
    [][ /\ \A i \in Images :
              AnalysisFails(i) =>
                  /\ analysis' = analysis
                  /\ credits' = credits
                  /\ toastMessage' = "Analysis failed. Try another image."
                  /\ ~loading'.analyzing
                  /\ an'[i] = IdleProc
        /\ \A i \in Images :
              (an[i].pc # "waiting" /\ an'[i].pc = "waiting") => an[i].pc = "reading"
        /\ \A i \in Images :
              (an[i].pc = "idle" /\ an'[i].pc # "idle") => UploadTriggered
      ]_vars

\* the first analysis has failed: its toast is up, nothing is stored or spent,
\* the flag is clear and no request is in flight
C12_Witness ==
    /\ toastMessage = "Analysis failed. Try another image."
    /\ originalImage # Null
    /\ analysis = Null
    /\ credits = InitialCredits
    /\ ~loading.analyzing
    /\ \A i \in Images : an[i].pc = "idle"

\* run v of generateProductVideo moves to position pc in this step
Reaches(v, pc) == vid[v].pc # pc /\ vid'[v].pc = pc

\* C13: one invocation of generateProductVideo submits one job, before any
\* status query; while the job is not done each cycle of the loop emits the
\* next message of the rotation (cycle k, from 0, emits message k mod 6),
\* suspends and sends one status query; no query follows a report of done.
C13_PollingProtocol ==
    [][ \A v \in VideoRuns :
          /\ Reaches(v, "submit") => vid[v].pc = "auth" /\ vid'[v].msgIdx = 0
          /\ vid[v].pc = "submit" => vid'[v].pc \in {"submit", "sleep", "fetch", "settled"}
          /\ Reaches(v, "sleep") =>
                /\ vid[v].pc \in {"submit", "query"}
                /\ ~vid'[v].done
                /\ videoStatus' = loadingMessages[(vid[v].msgIdx % 6) + 1]
                /\ vid'[v].msgIdx % 6 = (vid[v].msgIdx + 1) % 6
          /\ vid[v].pc = "sleep" => vid'[v].pc \in {"sleep", "query"}
          /\ Reaches(v, "query") => vid[v].pc = "sleep" /\ ~vid[v].done
          /\ vid[v].pc = "query" => vid'[v].pc \in {"query", "sleep", "fetch", "settled"}
          /\ vid[v].done => vid'[v].pc \notin {"submit", "sleep", "query"}
      ]_vars

\* the seventh cycle (k = 6) has shown the first message again and is suspended
C13_Witness ==
    /\ vid[1].pc = "sleep"
    /\ vid[1].msgIdx = 7
    /\ videoStatus = "Analyzing product geometry..."

\* run v is told the outcome `op` of its submission or of a status query
Reported(v, op) == SubmitAnswer(v, op) \/ QueryAnswer(v, op)

\* C14: a job reported done without a locator makes generateProductVideo
\* fail, one with a locator leads to one download and to the local reference;
\* a rejected submission, status query or download makes it fail with that
\* error.  When the failure reaches onGenerateVideo, productVideoUrl keeps its
\* value and generatingVideo is cleared.
C14_VideoResultOrFailure ==
    [][ \A v \in VideoRuns :
          /\ \A op \in OperationAnswers :
                Reported(v, op) =>
                    /\ ~op.ok =>
                          vid'[v].pc = "settled" /\ vid'[v].result = Fail(op.error)
                    /\ (op.ok /\ op.done /\ op.uri = Null) =>
                          vid'[v].pc = "settled" /\ vid'[v].result = Fail(ErrNoUri)
                    /\ (op.ok /\ op.done /\ op.uri # Null) =>
                          vid'[v].pc = "fetch" /\ vid'[v].result = NoResult
          /\ Reaches(v, "fetch") => vid[v].pc \in {"submit", "query"}
          /\ \A a \in FetchAnswers :
                FetchAnswer(v, a) =>
                    /\ vid'[v].pc = "settled"
                    /\ vid'[v].result = (IF a.ok THEN Ok(BlobUrl) ELSE Fail(a.error))
          /\ VideoFails(v) =>
                /\ assets' = assets
                /\ ~loading'.generatingVideo
                /\ vid'[v] = IdleVideo
                /\ toastMessage' \in {"Session expired. Please re-link your key.",
                                      "Video generation failed."}
          /\ (VideoSettles(v) /\ vid[v].result.ok) =>
                assets'.productVideoUrl = BlobUrl
      ]_vars

\* a second video of the campaign has failed for want of a locator: the first
\* video is still in its slot and the flag is clear
C14_Witness ==
    /\ assets.productVideoUrl = BlobUrl
    /\ toastMessage = "Video generation failed."
    /\ ~loading.generatingVideo
    /\ vid[1].pc = "idle"
    /\ videoStatus = "Simulating cinematic lighting..."

\* C15: for the script writer and the B-roll ideator, whatever the provider
\* answers (well-formed, malformed or empty text), the service returns a value
\* and the action settles as a success: the success toast, never the failure
\* toast.
C15_MalformedGivesDefault ==
    [][ \A g \in {"script", "broll"} :
          (GeneratorSettles(g) /\ gen[g].answer.ok) =>
              /\ gen[g].result.ok
              /\ toastMessage' = SuccessToast(g)
      ]_vars

\* a step of generator g, of the video
GeneratorActs(g) == gen'[g] # gen[g]
VideoActs == vid' # vid

\* C16: with several actions in flight, in every interleaving, a loading flag
\* changes only in a step of its own action and an asset slot is written only
\* by the successful settlement of its own action (New Campaign apart, which
\* empties the slots); a settlement leaves the flags and slots of the other
\* actions as they were, so no result is lost.
C16_ActionsOwnTheirSlice ==
    [][ /\ \A g \in Generators :
              /\ loading'[FlagOf(g)] # loading[FlagOf(g)] => GeneratorActs(g)
              /\ (assets'[SlotOf(g)] # assets[SlotOf(g)] /\ ~NewCampaignPressed) =>
                    /\ GeneratorSettles(g)
                    /\ gen[g].result.ok
                    /\ assets'[SlotOf(g)] = gen[g].result.value
              /\ GeneratorSettles(g) =>
                    /\ \A f \in Flags \ {FlagOf(g)} : loading'[f] = loading[f]
                    /\ OtherSlotsKept(SlotOf(g))
        /\ loading'.generatingVideo # loading.generatingVideo => VideoActs
        /\ (assets'.productVideoUrl # assets.productVideoUrl /\ ~NewCampaignPressed) =>
              \E v \in VideoRuns :
                  /\ VideoSettles(v)
                  /\ vid[v].result.ok
                  /\ assets'.productVideoUrl = vid[v].result.value
        /\ \A v \in VideoRuns :
              VideoSettles(v) =>
                  /\ \A f \in Flags \ {"generatingVideo"} : loading'[f] = loading[f]
                  /\ OtherSlotsKept("productVideoUrl")
      ]_vars

\* the script and the image were requested one after the other; both calls
\* have returned a result and their handlers are about to take it
C16_Witness ==
    /\ gen["script"].pc = "settled"
    /\ gen["script"].result.ok
    /\ gen["image"].pc = "settled"
    /\ gen["image"].result.ok
    /\ loading.writingScript
    /\ loading.generatingImage
    /\ assets.bRollConcepts # Null

\* handleUpgrade completes
UpgradeCompletes == upg = "selecting" /\ upg' = "upgraded"

\* an upload or sample load is let through by the credit check
UploadAccepted == UploadTriggered /\ an' # an

C18_AssetsBelongToCampaign ==
    (\E s \in Slots : assets[s] # Null) =>
        (analysis # Null /\ originalImage # Null)

\* C19: whenever no request is in flight (every started action, the sample
\* fetch included, has settled), all five loading flags are false.
C19_IdleMeansNoFlag ==
    InFlight = 0 => \A f \in Flags : ~loading[f]

\* the invocations of onGenerateVideo whose job is submitted and whose
\* generateProductVideo has not returned
JobsInFlight == {v \in VideoRuns : vid[v].pc \in {"submit", "sleep", "query", "fetch"}}

\* C20: at most one video generation job is in flight at any time: a click on
\* Generate Hero Video made before the previous trigger has settled, its
\* authorization check included, submits no second job.
C20_OneVideoJob == Cardinality(JobsInFlight) <= 1

\* C21: once all analyses in flight have settled, the stored analysis is the
\* result for the stored original image, whatever the order in which the
\* answers of overlapping uploads arrive: the last successful analysis to be
\* taken is that of the current image, never that of an earlier one.
C21_AnalysisMatchesImage ==
    [][ \A i \in Images :
          ( /\ AnalysisSucceeds(i)
            /\ \A j \in Images : an'[j].pc = "idle"
            /\ originalImage' # Null ) =>
              analysis' = AnalysisOf(originalImage')
      ]_vars

====
